---- MODULE Spec2Model ----
(***************************************************************************)
(* The control loop Service.Run of go-service, its per-start lifecycle     *)
(* helper goroutines and its stop-escalation timers.                       *)
(*                                                                         *)
(* The source tree holds four successive iterations of service.go:         *)
(*   1   src/service/service.go          lastCommand, quit channel         *)
(*   2   src/unnamed/part_002            adds Backoff                      *)
(*   3   src/unnamed/part_003:1-332      adds exit causes                  *)
(*   4   src/unnamed/part_003:334-689    command, sendResponse, no quit    *)
(* The variable ver selects the iteration that runs.                       *)
(* Every channel send of Run (events, responses) and every command it      *)
(* receives is appended to log, in the order the loop performs them; the   *)
(* consumers of events and responses are taken to be always receiving.     *)
(***************************************************************************)
EXTENDS Integers, Sequences, FiniteSets, Bags, TLC

\* ---- bounds of the model ----
MaxCmds == 3        \* commands the caller sends on the commands channel
MaxSpawns == 2      \* start attempts (lifecycle helpers) spawned by Run
MaxRetries == 1     \* largest configured number of start retries

\* ---- program constants ----
KillCap == 2        \* capacity of the kill channel
QuitCap == 2        \* capacity of the quit channel (ver 1, 2, 3)

Start == "start"
Stop == "stop"
Restart == "restart"
Shutdown == "shutdown"
CommandNames == {Start, Stop, Restart, Shutdown}

Starting == "starting"
Running == "running"
Stopping == "stopping"
Stopped == "stopped"
Exited == "exited"
Backoff == "backoff"

\* a nil error
NoError == "<nil>"
\* a nil *Command
NoCmd == [id |-> 0, name |-> "<nil>"]

Versions == {1, 2, 3, 4}

VARIABLES
  ver,        \* which iteration of service.go runs
  restart,    \* Service.Restart (ver 1) / Service.StopRestart (ver 2, 3, 4)
  maxRetries, \* Service.Retries (ver 1) / Service.StartRetries (ver 2, 3, 4)
  state,      \* Service.state
  scmd,       \* Service.command: index in procs of the child it points to, 0 = nil
  command,    \* Run's lastCommand (ver 1, 2, 3) / command (ver 4)
  retries,    \* Run's retries
  kill,       \* the kill channel's buffer
  quit,       \* number of values buffered in the quit channel (ver 1, 2, 3)
  timers,     \* bag of PIDs held by sleeping stop-escalation goroutines
  procs,      \* one record per start attempt: helper goroutines and child
  log,        \* everything Run received on commands and sent on events/responses
  loop        \* "select": Run waits in its select; "returned": Run has returned

vars == <<ver, restart, maxRetries, state, scmd, command, retries, kill, quit,
          timers, procs, log, loop>>

\* ---- errors ----
\* the two states in the wrong order
invalidStateErrorSwapped(from, to) ==
  "invalid state transition: " \o to \o " -> " \o from

invalidStateError(from, to) == "invalid state transition: " \o from \o " -> " \o to
ErrShuttingDown == "service is shutting down"
ErrShuttindDown == "service is shuttind down"
ErrExecuting == "command %s is currently executing"
LaunchError == "fork/exec: no such file or directory"
ExitFailure == "exit status 1"

ExitedNormally(status) ==
  IF status = "ok" THEN "process exited normally with success"
  ELSE "process exited normally with failure: " \o ExitFailure

ExitedPrematurely(status) ==
  IF status = "ok" THEN "process exited prematurely with success"
  ELSE "process exited prematurely with failure: " \o ExitFailure

\* ---- log entries ----
EventEntry(st, err) ==
  [kind |-> "event", id |-> 0, name |-> st, err |-> err, st |-> st, inflight |-> 0]
ResponseEntry(cmd, err, st) ==
  [kind |-> "response", id |-> cmd.id, name |-> cmd.name, err |-> err, st |-> st, inflight |-> 0]
CommandEntry(cmd, st, pending) ==
  [kind |-> "command", id |-> cmd.id, name |-> cmd.name, err |-> NoError, st |-> st,
   inflight |-> pending.id]

\* ---- the child process and the goroutines of one start attempt ----
\* h: position of the helper goroutine; t: position of its start-window goroutine
\*   h  "launch" before exec.Cmd.Start, "wait" in exec.Cmd.Wait, "check" receiving
\*      from checkOver, "send" sending msg on states, "done" terminated
\*   pid  the child's s.command.Process.Pid, 0 before the child is launched
\*   posted  the states the attempt's goroutines have sent on states so far
\*   t  "none" not spawned, "sleep" in time.Sleep(StartTimeout), "send" sending
\*      Running on states, "done" terminated
NoMsg == [state |-> "<none>", err |-> NoError]
NewProc ==
  [h |-> "launch", t |-> "none", msg |-> NoMsg, waitOver |-> FALSE,
   checkOver |-> "empty", alive |-> FALSE, status |-> "ok", signalled |-> FALSE,
   killed |-> FALSE, pid |-> 0, posted |-> <<>>]

\* The part of the state one handler of the loop reads and writes.
Cur ==
  [state |-> state, command |-> command, retries |-> retries, log |-> log,
   procs |-> procs, timers |-> timers, quit |-> quit, loop |-> loop]

Commit(m) ==
  /\ state' = m.state
  /\ command' = m.command
  /\ retries' = m.retries
  /\ log' = m.log
  /\ procs' = m.procs
  /\ timers' = m.timers
  /\ quit' = m.quit
  /\ loop' = m.loop

\* Service.Pid
Pid(m) == IF m.state # Running /\ m.state # Stopping THEN 0 ELSE m.procs[scmd].pid

\* Command.respond
respond(m, cmd, err) == [m EXCEPT !.log = Append(@, ResponseEntry(cmd, err, m.state))]

\* go func() { ... }() of start: a new helper goroutine
spawn(m) == [m EXCEPT !.procs = Append(@, NewProc)]

\* no stop-escalation goroutine is spawned
armKillNone(m, pid) == m

\* go func() { time.Sleep(s.StopTimeout); kill <- pid }() of stop
armKill(m, pid) == [m EXCEPT !.timers = @ (+) SetToBag({pid})]

\* s.command.Process.Signal(s.StopSignal)
signal(m) == [m EXCEPT !.procs[scmd].signalled = TRUE]

\* ======================= ver 4: src/unnamed/part_003:470-689 =============
\* sendResponse
sendResponse4(m, err) ==
  IF m.command # NoCmd
    THEN [respond(m, m.command, err) EXCEPT !.command = NoCmd]
    ELSE m

\* the event is sent, s.state is not written
sendEvent4StateKept(m, st, err) ==
  LET m1 == [m EXCEPT !.log = Append(@, EventEntry(st, err))]
  IN IF m1.command = NoCmd THEN m1
     ELSE IF m1.command.name \in {Restart, Start, Stop} /\ st = Exited
       THEN sendResponse4(m1, err)
     ELSE IF m1.command.name \in {Restart, Start} /\ st = Running
       THEN sendResponse4(m1, NoError)
     ELSE IF m1.command.name = Stop /\ st = Stopped
       THEN sendResponse4(m1, NoError)
     ELSE m1

\* the response is sent before the event
sendEvent4RespondFirst(m, st, err) ==
  LET m1 == [m EXCEPT !.state = st]
      m2 == IF m1.command = NoCmd THEN m1
            ELSE IF m1.command.name \in {Restart, Start, Stop} /\ st = Exited
              THEN sendResponse4(m1, err)
            ELSE IF m1.command.name \in {Restart, Start} /\ st = Running
              THEN sendResponse4(m1, NoError)
            ELSE IF m1.command.name = Stop /\ st = Stopped
              THEN sendResponse4(m1, NoError)
            ELSE m1
  IN [m2 EXCEPT !.log = Append(@, EventEntry(st, err))]

\* sendEvent
sendEvent4(m, st, err) ==
  LET m1 == [m EXCEPT !.state = st, !.log = Append(@, EventEntry(st, err))]
  IN IF m1.command = NoCmd THEN m1
     ELSE IF m1.command.name \in {Restart, Start}
       THEN IF st = Running THEN sendResponse4(m1, NoError)
            ELSE IF st = Exited THEN sendResponse4(m1, err)
            ELSE m1
     ELSE IF m1.command.name = Stop
       THEN IF st = Stopped THEN sendResponse4(m1, NoError)
            ELSE IF st = Exited THEN sendResponse4(m1, err)
            ELSE m1
     ELSE m1

\* the state is not tested
start4AnyState(m) == spawn(sendEvent4(m, Starting, NoError))

\* an Exited service cannot be started
start4StoppedOnly(m) ==
  IF m.state # Stopped /\ m.state # Backoff
    THEN sendResponse4(m, invalidStateError(m.state, Starting))
    ELSE spawn(sendEvent4(m, Starting, NoError))

\* start
start4(m) ==
  IF m.state # Stopped /\ m.state # Exited /\ m.state # Backoff
    THEN sendResponse4(m, invalidStateError(m.state, Starting))
    ELSE spawn(sendEvent4(m, Starting, NoError))

\* stop
stop4(m) ==
  IF m.state # Running
    THEN sendResponse4(m, invalidStateError(m.state, Stopping))
    ELSE LET m1 == sendEvent4(m, Stopping, NoError)
         IN armKill(signal(m1), Pid(m1))

shouldShutdown4(m) == m.command # NoCmd /\ m.command.name = Shutdown

\* the state is not tested
shouldQuitAnyState(m) == shouldShutdown4(m)

\* Exited forgotten
shouldQuitStoppedOnly(m) == shouldShutdown4(m) /\ m.state = Stopped

shouldQuit4(m) == shouldShutdown4(m) /\ (m.state = Stopped \/ m.state = Exited)

\* retries <= s.StartRetries in place of retries < s.StartRetries
onState4RetryOffByOne(m, st, err) ==
  CASE st = Running ->
         IF shouldShutdown4(m) THEN stop4(m) ELSE sendEvent4(m, Running, NoError)
    [] st = Exited ->
         IF m.state = Stopping
           THEN sendEvent4(m, Stopped, NoError)
           ELSE LET m1 == sendEvent4(m, Exited, err)
                IN IF restart THEN start4(m1) ELSE m1
    [] st = Backoff ->
         IF m.state = Stopping
           THEN sendEvent4(m, Stopped, NoError)
           ELSE IF m.retries <= maxRetries
             THEN [start4(sendEvent4(m, Backoff, err)) EXCEPT !.retries = @ + 1]
             ELSE [sendEvent4(m, Exited, err) EXCEPT !.retries = 0]

\* case state := <-states
onState4(m, st, err) ==
  CASE st = Running ->
         IF shouldShutdown4(m) THEN stop4(m) ELSE sendEvent4(m, Running, NoError)
    [] st = Exited ->
         IF m.state = Stopping
           THEN sendEvent4(m, Stopped, NoError)
           ELSE LET m1 == sendEvent4(m, Exited, err)
                IN IF restart THEN start4(m1) ELSE m1
    [] st = Backoff ->
         IF m.state = Stopping
           THEN sendEvent4(m, Stopped, NoError)
           ELSE IF m.retries < maxRetries
             THEN [start4(sendEvent4(m, Backoff, err)) EXCEPT !.retries = @ + 1]
             ELSE [sendEvent4(m, Exited, err) EXCEPT !.retries = 0]

\* case newCommand := <-commands
onCommand4(m, new) ==
  IF m.command # NoCmd /\ new.name # Shutdown
    THEN respond(m, new, ErrExecuting)
    ELSE LET m0 == IF m.command # NoCmd
                     THEN respond(m, m.command, ErrShuttindDown)
                     ELSE m
             m1 == [m0 EXCEPT !.command = new]
         IN CASE new.name = Start -> start4(m1)
              [] new.name = Stop -> stop4(m1)
              [] new.name = Restart ->
                   IF m1.state = Running THEN stop4(m1)
                   ELSE IF m1.state = Stopped \/ m1.state = Exited THEN start4(m1)
                   ELSE sendResponse4(m1, invalidStateError(m1.state, Stopping))
              [] new.name = Shutdown ->
                   IF m1.state = Running THEN stop4(m1)
                   ELSE IF m1.state = Backoff THEN [m1 EXCEPT !.state = Exited]
                   ELSE m1

\* the PID is not compared
onKill4NoGuard(m, pid) ==
  IF scmd # 0 THEN [m EXCEPT !.procs[scmd].killed = TRUE] ELSE m

\* case pid := <-kill
onKill4(m, pid) ==
  IF pid = Pid(m) THEN [m EXCEPT !.procs[scmd].killed = TRUE] ELSE m

\* for !shouldQuit() { ... }; if command != nil { command.respond(s, nil) }
loopTest4(m) ==
  IF shouldQuit4(m)
    THEN [respond(m, m.command, NoError) EXCEPT !.loop = "returned"]
    ELSE m

\* ======================= ver 1: src/service/service.go ===================
\* sendEvent
sendEvent1(m, st) ==
  [m EXCEPT !.state = st, !.log = Append(@, EventEntry(st, NoError))]

\* sendInvalidCmd
sendInvalidCmd1(m, cmd, st) ==
  IF cmd # NoCmd THEN respond(m, cmd, invalidStateError(m.state, st)) ELSE m

\* start
start1(m, cmd) ==
  IF m.state # Stopped /\ m.state # Exited
    THEN sendInvalidCmd1(m, cmd, Starting)
    ELSE spawn(sendEvent1(m, Starting))

\* stop
stop1(m, cmd) ==
  IF m.state # Running
    THEN sendInvalidCmd1(m, cmd, Stopping)
    ELSE LET m1 == sendEvent1(m, Stopping)
         IN armKill(signal(m1), Pid(m1))

\* quit <- true: the loop goroutine blocks for good when the buffer is full
pushQuit(m) ==
  IF m.quit < QuitCap THEN [m EXCEPT !.quit = @ + 1] ELSE [m EXCEPT !.loop = "blocked"]

\* shutdown
shutdown1(m, cmd, lastCmd) ==
  LET m0 == IF lastCmd # NoCmd THEN respond(m, lastCmd, ErrShuttingDown) ELSE m
  IN IF m0.state = Stopped \/ m0.state = Exited THEN pushQuit(m0)
     ELSE IF m0.state = Running THEN stop1(m0, cmd)
     ELSE m0

\* onRunning
onRunning1(m, cmd) ==
  LET m1 == sendEvent1(m, Running)
      m2 == IF cmd = NoCmd THEN m1
            ELSE IF cmd.name \in {Start, Restart} THEN respond(m1, cmd, NoError)
            ELSE IF cmd.name = Shutdown THEN stop1(m1, cmd)
            ELSE m1
  IN [m2 EXCEPT !.retries = 0]

\* onStopped
onStopped1(m, cmd) ==
  LET m1 == sendEvent1(m, Stopped)
  IN IF cmd = NoCmd THEN m1
     ELSE IF cmd.name = Restart THEN start1(m1, cmd)
     ELSE IF cmd.name = Stop THEN respond(m1, cmd, NoError)
     ELSE IF cmd.name = Shutdown THEN pushQuit(m1)
     ELSE m1

\* onExited, with the caller's retries++
onExited1(m, cmd) ==
  LET m1 == sendEvent1(m, Exited)
  IN IF restart /\ m.retries < maxRetries
       THEN [start1(m1, cmd) EXCEPT !.retries = @ + 1]
       ELSE m1

\* case state := <-states
onState1(m, st) ==
  LET m1 == IF st = Running THEN onRunning1(m, m.command)
            ELSE IF m.state = Stopping THEN onStopped1(m, m.command)
            ELSE onExited1(m, m.command)
  IN IF m1.command = NoCmd THEN m1
     ELSE IF m1.command.name = Restart /\ m1.state = Running
       THEN [m1 EXCEPT !.command = NoCmd]
     ELSE IF m1.command.name # Restart /\ m1.command.name # Shutdown
       THEN [m1 EXCEPT !.command = NoCmd]
     ELSE m1

\* case command := <-commands
onCommand1(m, new) ==
  IF m.command = NoCmd \/ m.command.name # Shutdown
    THEN LET m1 == CASE new.name = Start -> start1(m, new)
                     [] new.name = Stop -> stop1(m, new)
                     [] new.name = Restart -> stop1(m, new)
                     [] new.name = Shutdown -> shutdown1(m, new, m.command)
         IN [m1 EXCEPT !.command = new]
    ELSE respond(m, new, ErrShuttingDown)

\* case <-quit
onQuit1(m) ==
  LET m1 == [m EXCEPT !.quit = @ - 1]
      m2 == IF m1.command # NoCmd THEN respond(m1, m1.command, NoError) ELSE m1
  IN [m2 EXCEPT !.loop = "returned"]

\* case pid := <-kill
onKill1(m, pid) ==
  IF pid = Pid(m) THEN [m EXCEPT !.procs[scmd].killed = TRUE] ELSE m

\* ============ ver 2 and 3: src/unnamed/part_002, part_003:1-332 ==========
\* The loop of ver 2 is that of ver 3 without the exit causes: its helper
\* sends nil errors.  stop, shutdown, the quit and the kill case are those of
\* ver 1.
\* sendEvent
sendEvent3(m, st, err) ==
  [m EXCEPT !.state = st, !.log = Append(@, EventEntry(st, err))]

\* start
start3(m, cmd) ==
  IF m.state # Stopped /\ m.state # Exited /\ m.state # Backoff
    THEN sendInvalidCmd1(m, cmd, Starting)
    ELSE spawn(sendEvent3(m, Starting, NoError))

\* onRunning
onRunning3(m, cmd) ==
  LET m1 == sendEvent3(m, Running, NoError)
  IN IF cmd = NoCmd THEN m1
     ELSE IF cmd.name \in {Start, Restart} THEN respond(m1, cmd, NoError)
     ELSE IF cmd.name = Shutdown THEN stop1(m1, cmd)
     ELSE m1

\* onStopped
onStopped3(m, cmd) ==
  LET m1 == sendEvent3(m, Stopped, NoError)
  IN IF cmd = NoCmd THEN m1
     ELSE IF cmd.name = Restart THEN start3(m1, cmd)
     ELSE IF cmd.name = Stop THEN respond(m1, cmd, NoError)
     ELSE IF cmd.name = Shutdown THEN pushQuit(m1)
     ELSE m1

\* onExited
onExited3(m, cmd, err) ==
  LET m1 == sendEvent3(m, Exited, err)
  IN IF restart THEN start3(m1, cmd) ELSE m1

\* onBackoff
onBackoff3(m, cmd, err) ==
  IF m.retries < maxRetries
    THEN [start3(sendEvent3(m, Backoff, err), cmd) EXCEPT !.retries = @ + 1]
    ELSE [sendEvent3(m, Exited, err) EXCEPT !.retries = 0]

\* case state := <-states
onState3(m, st, err) ==
  LET m1 == IF st = Running THEN onRunning3(m, m.command)
            ELSE IF st = Exited
              THEN IF m.state = Stopping THEN onStopped3(m, m.command)
                   ELSE onExited3(m, m.command, err)
            ELSE onBackoff3(m, m.command, err)
  IN IF m1.command = NoCmd THEN m1
     ELSE IF m1.command.name = Restart /\ m1.state = Running
       THEN [m1 EXCEPT !.command = NoCmd]
     ELSE IF m1.command.name # Restart /\ m1.command.name # Shutdown
       THEN [m1 EXCEPT !.command = NoCmd]
     ELSE m1

\* case command := <-commands
onCommand3(m, new) ==
  IF m.command = NoCmd \/ m.command.name # Shutdown
    THEN LET m1 == CASE new.name = Start -> start3(m, new)
                     [] new.name = Stop -> stop1(m, new)
                     [] new.name = Restart -> stop1(m, new)
                     [] new.name = Shutdown -> shutdown1(m, new, m.command)
         IN [m1 EXCEPT !.command = new]
    ELSE respond(m, new, ErrShuttingDown)

\* What the helper sends after s.command.Wait(); late: the start timeout had
\* elapsed when Wait returned.
\* ver 2: if time.Now().Sub(startTime) > s.StartTimeout { Backoff } else Exited
exitMsg2(late) ==
  IF late THEN [state |-> Backoff, err |-> NoError]
  ELSE [state |-> Exited, err |-> NoError]

\* ver 3: if time.Now().Sub(startTime) < s.StartTimeout { Backoff } else Exited
exitMsg3(late, status) ==
  IF ~late THEN [state |-> Backoff, err |-> ExitedPrematurely(status)]
  ELSE [state |-> Exited, err |-> ExitedNormally(status)]

\* ======================= the system ======================================
Init ==
  /\ ver \in Versions
  /\ restart \in BOOLEAN
  /\ maxRetries \in 0..MaxRetries
  /\ state = Stopped
  /\ scmd = 0
  /\ command = NoCmd
  /\ retries = 0
  /\ kill = <<>>
  /\ quit = 0
  /\ timers = EmptyBag
  /\ procs = <<>>
  /\ log = <<>>
  /\ loop = "select"

NumCmds == Len(SelectSeq(log, LAMBDA e : e.kind = "command"))

\* What a handler leaves behind is committed; a start attempt beyond the
\* bound is not taken.
Handle(m) ==
  /\ Len(m.procs) <= MaxSpawns
  /\ Commit(m)
  /\ UNCHANGED <<ver, restart, maxRetries, scmd>>

\* The caller sends a command and the loop's select receives it.
RecvCommand(name) ==
  /\ loop = "select"
  /\ NumCmds < MaxCmds
  /\ LET new == [id |-> NumCmds + 1, name |-> name]
         m == [Cur EXCEPT !.log = Append(@, CommandEntry(new, state, command))]
     IN Handle(CASE ver = 1 -> onCommand1(m, new)
                 [] ver \in {2, 3} -> onCommand3(m, new)
                 [] ver = 4 -> loopTest4(onCommand4(m, new)))
  /\ UNCHANGED kill

\* The loop's select receives what the helper goroutine of attempt i sends.
RecvStateH(i) ==
  /\ loop = "select"
  /\ procs[i].h = "send"
  /\ LET msg == procs[i].msg
         m == [Cur EXCEPT !.procs[i].h = IF msg.state = Running THEN "wait" ELSE "done",
                          !.procs[i].msg = NoMsg,
                          !.procs[i].posted = Append(@, msg.state)]
     IN Handle(CASE ver = 1 -> onState1(m, msg.state)
                 [] ver \in {2, 3} -> onState3(m, msg.state, msg.err)
                 [] ver = 4 -> loopTest4(onState4(m, msg.state, msg.err)))
  /\ UNCHANGED kill

\* The loop's select receives Running from the start-window goroutine (ver 4),
\* which then puts true in checkOver.
RecvStateT(i) ==
  /\ loop = "select"
  /\ ver = 4
  /\ procs[i].t = "send"
  /\ LET m == [Cur EXCEPT !.procs[i].t = "done", !.procs[i].checkOver = "true",
                          !.procs[i].posted = Append(@, Running)]
     IN Handle(loopTest4(onState4(m, Running, NoError)))
  /\ UNCHANGED kill

\* The loop's select receives a PID from kill.
RecvKill ==
  /\ loop = "select"
  /\ kill # <<>>
  /\ kill' = Tail(kill)
  /\ Handle(IF ver = 4 THEN loopTest4(onKill4(Cur, Head(kill))) ELSE onKill1(Cur, Head(kill)))

\* The loop's select receives from quit (ver 1, 2, 3).
RecvQuit ==
  /\ loop = "select"
  /\ ver # 4
  /\ quit > 0
  /\ Handle(onQuit1(Cur))
  /\ UNCHANGED kill

\* s.command.Wait() of attempt j has returned: the child is reaped and the
\* operating system may give its PID to a new process.
Reaped(j) ==
  \/ procs[j].h \in {"check", "done"}
  \/ procs[j].h = "send" /\ procs[j].msg.state # Running

\* The PIDs the operating system can give a new child: one that no unreaped
\* child holds, either used before or the next unused one.
FreePids ==
  LET used == {procs[j].pid : j \in 1..Len(procs)} \ {0}
      held == {procs[j].pid : j \in {k \in 1..Len(procs) : procs[k].pid # 0 /\ ~Reaped(k)}}
  IN (used \cup {Cardinality(used) + 1}) \ held

\* The helper goroutine: s.command = s.makeCommand(); s.command.Start()
Launch(i, ok, pid) ==
  /\ procs[i].h = "launch"
  /\ IF ok THEN pid \in FreePids ELSE pid = 0
  /\ scmd' = i
  /\ procs' = [procs EXCEPT ![i] =
       IF ~ok THEN [@ EXCEPT !.h = "send",
                             !.msg = [state |-> Exited,
                                      err |-> IF ver \in {1, 2} THEN NoError
                                              ELSE LaunchError]]
       ELSE IF ver = 4
         THEN [@ EXCEPT !.alive = TRUE, !.pid = pid, !.h = "wait", !.t = "sleep"]
         ELSE [@ EXCEPT !.alive = TRUE, !.pid = pid, !.h = "send",
                        !.msg = [state |-> Running, err |-> NoError]]]
  /\ UNCHANGED <<ver, restart, maxRetries, state, command, retries, kill, quit,
                 timers, log, loop>>

\* The child process exits, by itself or after a signal.
ChildExit(i, status) ==
  /\ procs[i].alive
  /\ procs[i].killed => status = "fail"
  /\ procs' = [procs EXCEPT ![i].alive = FALSE, ![i].status = status]
  /\ UNCHANGED <<ver, restart, maxRetries, state, scmd, command, retries, kill, quit,
                 timers, log, loop>>

\* The helper goroutine: s.command.Wait() returns.  ver 1 goes on to send
\* Exited; ver 2 and 3 compare the elapsed time with the start timeout (late:
\* it had elapsed) and go on to send Backoff or Exited; ver 4 puts true in
\* waitOver.
WaitReturns(i, late) ==
  /\ procs[i].h = "wait"
  /\ ~procs[i].alive
  /\ ver \in {1, 4} => ~late
  /\ procs' = [procs EXCEPT ![i] =
       CASE ver = 1 -> [@ EXCEPT !.h = "send", !.msg = [state |-> Exited, err |-> NoError]]
         [] ver = 2 -> [@ EXCEPT !.h = "send", !.msg = exitMsg2(late)]
         [] ver = 3 -> [@ EXCEPT !.h = "send", !.msg = exitMsg3(late, procs[i].status)]
         [] ver = 4 -> [@ EXCEPT !.h = "check", !.waitOver = TRUE]]
  /\ UNCHANGED <<ver, restart, maxRetries, state, scmd, command, retries, kill, quit,
                 timers, log, loop>>

\* The start-window goroutine (ver 4): time.Sleep(s.StartTimeout) is over;
\* select { case <-waitOver: checkOver <- false; default: states <- Running ... }
StartWindow(i) ==
  /\ procs[i].t = "sleep"
  /\ procs' = [procs EXCEPT ![i] =
       IF @.waitOver
         THEN [@ EXCEPT !.waitOver = FALSE, !.checkOver = "false", !.t = "done"]
         ELSE [@ EXCEPT !.t = "send"]]
  /\ UNCHANGED <<ver, restart, maxRetries, state, scmd, command, retries, kill, quit,
                 timers, log, loop>>

\* The helper goroutine (ver 4): check := <-checkOver, then the message to send.
CheckOver(i) ==
  /\ procs[i].h = "check"
  /\ procs[i].checkOver # "empty"
  /\ procs' = [procs EXCEPT ![i] =
       [@ EXCEPT !.checkOver = "empty", !.h = "send",
                 !.msg = IF procs[i].checkOver = "true"
                           THEN [state |-> Exited, err |-> ExitedNormally(procs[i].status)]
                           ELSE [state |-> Backoff, err |-> ExitedPrematurely(procs[i].status)]]]
  /\ UNCHANGED <<ver, restart, maxRetries, state, scmd, command, retries, kill, quit,
                 timers, log, loop>>

\* A stop-escalation goroutine: time.Sleep(s.StopTimeout) is over; kill <- pid.
\* After Run has returned kill is closed: the send panics and is recovered.
TimerFire(pid) ==
  /\ BagIn(pid, timers)
  /\ IF loop = "returned"
       THEN kill' = kill
       ELSE Len(kill) < KillCap /\ kill' = Append(kill, pid)
  /\ timers' = timers (-) SetToBag({pid})
  /\ UNCHANGED <<ver, restart, maxRetries, state, scmd, command, retries, quit,
                 procs, log, loop>>

Attempts == 1..Len(procs)

Next ==
  \/ \E name \in CommandNames : RecvCommand(name)
  \/ \E i \in Attempts : RecvStateH(i)
  \/ \E i \in Attempts : RecvStateT(i)
  \/ RecvKill
  \/ RecvQuit
  \/ \E i \in Attempts : \E ok \in BOOLEAN : \E pid \in 0..Len(procs) : Launch(i, ok, pid)
  \/ \E i \in Attempts : \E status \in {"ok", "fail"} : ChildExit(i, status)
  \/ \E i \in Attempts : \E late \in BOOLEAN : WaitReturns(i, late)
  \/ \E i \in Attempts : StartWindow(i)
  \/ \E i \in Attempts : CheckOver(i)
  \/ \E pid \in 0..MaxSpawns + 1 : TimerFire(pid)

Spec == Init /\ [][Next]_vars

\* One iteration at a time: NextQ is the next-state relation of the iterations
\* with a quit channel (1, 2, 3), Next4 that of iteration 4.
Init1 == Init /\ ver = 1
Init2 == Init /\ ver = 2
Init3 == Init /\ ver = 3
Init4 == Init /\ ver = 4

NextQ ==
  \/ \E name \in CommandNames : RecvCommand(name)
  \/ \E i \in Attempts : RecvStateH(i)
  \/ RecvKill
  \/ RecvQuit
  \/ \E i \in Attempts : \E ok \in BOOLEAN : \E pid \in 0..Len(procs) : Launch(i, ok, pid)
  \/ \E i \in Attempts : \E status \in {"ok", "fail"} : ChildExit(i, status)
  \/ \E i \in Attempts : \E late \in BOOLEAN : WaitReturns(i, late)
  \/ \E pid \in 0..MaxSpawns + 1 : TimerFire(pid)

Next4 ==
  \/ \E name \in CommandNames : RecvCommand(name)
  \/ \E i \in Attempts : RecvStateH(i)
  \/ \E i \in Attempts : RecvStateT(i)
  \/ RecvKill
  \/ \E i \in Attempts : \E ok \in BOOLEAN : \E pid \in 0..Len(procs) : Launch(i, ok, pid)
  \/ \E i \in Attempts : \E status \in {"ok", "fail"} : ChildExit(i, status)
  \/ \E i \in Attempts : \E late \in BOOLEAN : WaitReturns(i, late)
  \/ \E i \in Attempts : StartWindow(i)
  \/ \E i \in Attempts : CheckOver(i)
  \/ \E pid \in 0..MaxSpawns + 1 : TimerFire(pid)

SpecV1 == Init1 /\ [][NextQ]_vars
SpecV2 == Init2 /\ [][NextQ]_vars
SpecV3 == Init3 /\ [][NextQ]_vars
SpecV4 == Init4 /\ [][Next4]_vars

\* Iteration 4 under the scheduling the Go runtime gives: the loop's select
\* takes a value that stays ready on states or kill, every goroutine that can
\* take a step takes it, every sleep ends, and a child that was killed exits.
\* Nothing obliges the caller to send a command or a child to exit by itself.
FairV4 ==
  /\ \A i \in 1..MaxSpawns :
       /\ WF_vars(i \in Attempts /\ RecvStateH(i))
       /\ WF_vars(i \in Attempts /\ RecvStateT(i))
       /\ WF_vars(i \in Attempts /\ WaitReturns(i, FALSE))
       /\ WF_vars(i \in Attempts /\ StartWindow(i))
       /\ WF_vars(i \in Attempts /\ CheckOver(i))
       /\ WF_vars(i \in Attempts /\ procs[i].killed /\ ChildExit(i, "fail"))
  /\ WF_vars(RecvKill)
  /\ WF_vars(\E pid \in 1..MaxSpawns : TimerFire(pid))
LiveV4 == SpecV4 /\ FairV4

\* ======================= reading the log =================================
Pos == DOMAIN log
IsCommand(i) == log[i].kind = "command"
IsEvent(i) == log[i].kind = "event"
IsResponse(i) == log[i].kind = "response"

\* positions of the responses sent to command id
ResponsesTo(id) == {i \in Pos : IsResponse(i) /\ log[i].id = id}

\* position i holds a command that has no response before position j
Unanswered(i, j) == IsCommand(i) /\ \A k \in ResponsesTo(log[i].id) : k >= j

\* a command is in flight at position j: received before j, no response before j
InFlightAt(j) == {i \in Pos : i < j /\ Unanswered(i, j)}

\* ======================= claims ==========================================

\* C1: no command ever receives more than one response.
C1_AtMostOneResponse ==
  \A id \in 1..MaxCmds : Cardinality(ResponsesTo(id)) <= 1

\* the events sent after position i, in order
EventsAfter(i) ==
  SelectSeq(SubSeq(log, i + 1, Len(log)), LAMBDA e : e.kind = "event")

\* no command is received after position i
LastCommand(i) == \A j \in Pos : j > i => ~IsCommand(j)

\* position i holds a shutdown received while no other shutdown is in flight
AcceptedShutdown(i) ==
  /\ IsCommand(i)
  /\ log[i].name = Shutdown
  /\ \A k \in InFlightAt(i) : log[k].name # Shutdown

\* Nothing can happen any more unless a new command arrives: Run waits in its
\* select, every helper goroutine has terminated, no child is alive, no
\* stop-escalation goroutine is left and no channel holds a value.
Quiescent ==
  /\ loop = "select"
  /\ \A i \in Attempts :
       procs[i].h = "done" /\ procs[i].t \in {"none", "done"} /\ ~procs[i].alive
  /\ timers = EmptyBag
  /\ kill = <<>>
  /\ quit = 0

\* C2: every command Run accepts eventually receives a response.  Stated for
\* the runs that have come to rest: when nothing can happen any more without
\* a new command, no received command is left without a response.
C2_AnsweredAtRest ==
  Quiescent => \A i \in Pos : IsCommand(i) => ResponsesTo(log[i].id) # {}

\* the commands the transition table forbids in a state
Forbidden(st, name) ==
  \/ name = Start /\ st \in {Starting, Running, Stopping}
  \/ name = Stop /\ st # Running
  \/ name = Restart /\ st \in {Starting, Stopping, Backoff}

\* the state a rejected command asked for
Target(name) == IF name = Start THEN Starting ELSE Stopping

\* C3: a command the state forbids, received while no command is in flight,
\* is answered with the invalid-state-transition error naming the current
\* state and the requested one; the step sends nothing else (no event) and
\* leaves the service state unchanged.
C3_InvalidRejected ==
  [][\A name \in CommandNames :
       LET n == Len(log) + 1
           new == [id |-> NumCmds + 1, name |-> name]
       IN (/\ Len(log') > Len(log)
           /\ log'[n] = CommandEntry(new, state, command)
           /\ Forbidden(state, name)
           /\ InFlightAt(n) = {})
          => /\ state' = state
             /\ log' = log \o <<CommandEntry(new, state, command),
                                ResponseEntry(new,
                                              "invalid state transition: " \o state
                                                \o " -> " \o Target(name),
                                              state)>>]_vars

\* C3 witness: a start received in Running with nothing in flight was rejected.
C3_Witness ==
  \E i \in Pos :
    /\ IsCommand(i) /\ log[i].name = Start /\ log[i].st = Running
    /\ InFlightAt(i) = {}
    /\ i + 1 \in Pos /\ IsResponse(i + 1) /\ log[i + 1].id = log[i].id
    /\ log[i + 1].err = "invalid state transition: running -> starting"

\* C4: a restart accepted in Running produces the events Stopping, Stopped,
\* Starting, Running in this order, and its success response comes only after
\* that Running.  Once the run has come to rest the first three have been sent.
C4_RestartSequence ==
  \A i \in Pos :
    (IsCommand(i) /\ log[i].name = Restart /\ log[i].st = Running /\ InFlightAt(i) = {})
    => LET ev == EventsAfter(i)
           want == <<Stopping, Stopped, Starting>>
       IN /\ \A k \in 1..Len(ev) : k <= 3 => ev[k].name = want[k]
          /\ \A r \in ResponsesTo(log[i].id) :
               log[r].err = NoError =>
                 Len(EventsAfter(i)) >= 4 /\ ev[4].name = Running /\ log[r - 1] = ev[4]
          /\ Quiescent => Len(ev) >= 3

\* C5: a shutdown received in Starting or Stopping is deferred; when it is
\* answered, it is answered with success and Run returns.  Stated for a
\* shutdown that no later command follows.
C5_DeferredShutdownSucceeds ==
  \A i \in Pos :
    (AcceptedShutdown(i) /\ log[i].st \in {Starting, Stopping} /\ LastCommand(i))
    => \A r \in ResponsesTo(log[i].id) : log[r].err = NoError /\ loop = "returned"

\* C6: a shutdown accepted in Running emits Stopping, then Stopped, and is then
\* answered with success, after which Run returns.
C6_ShutdownFromRunning ==
  \A i \in Pos :
    (AcceptedShutdown(i) /\ log[i].st = Running /\ InFlightAt(i) = {})
    => /\ EventsAfter(i) # <<>> /\ EventsAfter(i)[1] = EventEntry(Stopping, NoError)
       /\ \A r \in ResponsesTo(log[i].id) :
            /\ log[r].err = NoError
            /\ loop = "returned"
            /\ EventsAfter(i) = <<EventEntry(Stopping, NoError), EventEntry(Stopped, NoError)>>
            /\ \A j \in Pos : IsEvent(j) => j < r

\* C7: a shutdown received in Stopped or Exited with no command in flight
\* is answered with success, no event is sent after it, and Run returns: either
\* Run has returned and the success response is in the log, or (ver 1, 2, 3)
\* the quit channel holds the value whose receipt sends it.
C7_ShutdownAtRest ==
  \A i \in Pos :
    (AcceptedShutdown(i) /\ log[i].st \in {Stopped, Exited} /\ InFlightAt(i) = {})
    => /\ EventsAfter(i) = <<>>
       /\ \A r \in ResponsesTo(log[i].id) : log[r].err = NoError
       /\ \/ loop = "returned" /\ ResponsesTo(log[i].id) # {}
          \/ loop = "select" /\ ver # 4 /\ quit > 0 /\ ResponsesTo(log[i].id) = {}

\* C7 witness: a shutdown received in Exited with nothing in flight got its
\* success response and Run returned.
C7_Witness ==
  \E i \in Pos :
    /\ IsCommand(i) /\ log[i].name = Shutdown /\ log[i].st = Exited
    /\ InFlightAt(i) = {}
    /\ loop = "returned"
    /\ \E r \in ResponsesTo(log[i].id) : log[r].err = NoError

\* C8: after the response to a shutdown command nothing more is sent: no event
\* and no response.  Stated for an accepted shutdown that no later command
\* follows.
C8_NothingAfterShutdownResponse ==
  \A r \in Pos :
    (/\ IsResponse(r) /\ log[r].name = Shutdown
     /\ \A i \in Pos : IsCommand(i) /\ log[i].id = log[r].id
                          => AcceptedShutdown(i) /\ LastCommand(i))
    => \A j \in Pos : j > r => ~IsEvent(j) /\ ~IsResponse(j)

\* C9: a start, stop or restart received while another command is in flight is
\* answered at once with the command-is-executing error, in the state it was
\* received in.
C9_ConcurrentRejected ==
  \A i \in Pos :
    (IsCommand(i) /\ log[i].name # Shutdown /\ InFlightAt(i) # {})
    => /\ i + 1 \in Pos
       /\ log[i + 1] = ResponseEntry([id |-> log[i].id, name |-> log[i].name],
                                     ErrExecuting, log[i].st)

\* C10: a shutdown received while another command is in flight answers that
\* command with "service is shutting down" and becomes the command in flight.
C10_PreemptedByShutdown ==
  \A i \in Pos :
    (/\ IsCommand(i) /\ log[i].name = Shutdown
     /\ \E k \in InFlightAt(i) : log[k].name # Shutdown)
    => \E k \in InFlightAt(i) :
         /\ i + 1 \in Pos
         /\ log[i + 1] = ResponseEntry([id |-> log[k].id, name |-> log[k].name],
                                       ErrShuttingDown, log[i].st)

\* C11: once a shutdown has been accepted, every command received before Run
\* returns is answered at once with "service is shutting down", and the
\* accepted shutdown is answered with success only.
C11_RejectedAfterShutdown ==
  \A i \in Pos :
    (IsCommand(i) /\ \E k \in InFlightAt(i) : AcceptedShutdown(k))
    => /\ i + 1 \in Pos
       /\ log[i + 1] = ResponseEntry([id |-> log[i].id, name |-> log[i].name],
                                     "service is shutting down", log[i].st)
       /\ \A k \in InFlightAt(i) :
            AcceptedShutdown(k) => \A r \in ResponsesTo(log[k].id) : log[r].err = NoError

\* C12: with N start retries and a child that exits prematurely on every
\* attempt, a start produces N times (Starting, Backoff), then Starting and the
\* event "fatal", and is answered with the failure that last event carries.
\* Stated for the runs that have come to rest after a single start command in
\* which every child was launched and none outlived its start window (no
\* Running event, no launch error).
C12_BackoffToFatal ==
  LET ev == EventsAfter(1)
      N == maxRetries
  IN (/\ Quiescent
      /\ NumCmds = 1
      /\ log[1].name = Start
      /\ \A j \in Pos : IsEvent(j) => log[j].name # Running /\ log[j].err # LaunchError)
     => /\ Len(ev) = 2 * N + 2
        /\ \A k \in 1..N : ev[2 * k - 1].name = Starting /\ ev[2 * k].name = Backoff
        /\ ev[2 * N + 1].name = Starting
        /\ ev[2 * N + 2].name = "fatal"
        /\ \E r \in ResponsesTo(1) :
             log[r].err # NoError /\ log[r].err = ev[2 * N + 2].err

\* C13: the retry counter is zero after every transition into Running.  The
\* counter changes only in steps that leave Running, so it is zero whenever
\* the state is Running.
C13_RetriesZeroInRunning == state = Running => retries = 0

\* what a step appends to the log
Appended == SubSeq(log', Len(log) + 1, Len(log'))

\* the names of the last n events of the log, oldest first; <<>> if fewer
LastEvents(n) ==
  LET ev == SelectSeq(log, LAMBDA e : e.kind = "event")
  IN IF Len(ev) < n THEN <<>>
     ELSE [k \in 1..n |-> ev[Len(ev) - n + k].name]

\* C14: when the child's exit is observed in Running, the state becomes Exited;
\* with the restart flag a new attempt follows at once (events Exited,
\* Starting, no Backoff), without it the events end with Exited, the state
\* stays Exited and the next thing in the log is a command.
C14_ExitInRunning ==
  [][/\ (/\ state = Running
         /\ Appended # <<>>
         /\ \A k \in DOMAIN Appended : Appended[k].kind # "command")
        => LET ev == SelectSeq(Appended, LAMBDA e : e.kind = "event")
           IN IF restart
                THEN /\ Len(ev) = 2 /\ ev[1].name = Exited /\ ev[2].name = Starting
                     /\ state' = Starting
                     /\ Len(procs') = Len(procs) + 1
                ELSE /\ Len(ev) = 1 /\ ev[1].name = Exited
                     /\ state' = Exited
                     /\ Len(procs') = Len(procs)
     /\ (/\ ~restart
         /\ state = Exited
         /\ LastEvents(2) = <<Running, Exited>>
         /\ Appended # <<>>)
        => Appended[1].kind = "command"]_vars

\* C14 witness: with the restart flag, an exit observed in Running was followed
\* at once by a new attempt.
C14_Witness ==
  /\ restart
  /\ state = Starting
  /\ LastEvents(3) = <<Running, Exited, Starting>>

\* C15 as amended: a forced kill is issued only on receipt of a kill
\* notification whose PID, recorded at a stop, equals the PID of the current
\* child while the state is Running or Stopping; so a timer armed for an
\* earlier child kills a later one only if that child has the same PID.
C15_KillGuard ==
  [][\A i \in DOMAIN procs :
       (procs'[i].killed /\ ~procs[i].killed)
       => /\ kill # <<>>
          /\ Head(kill) = procs[i].pid
          /\ i = scmd
          /\ state \in {Running, Stopping}
          /\ \E j \in 1..i : procs[j].signalled /\ procs[j].pid = Head(kill)]_vars

\* C15 witness: a child that was sent the stop signal and did not exit in time
\* was killed.
C15_Witness ==
  \E i \in Attempts : procs[i].killed /\ procs[i].signalled /\ state = Stopping

\* C15: a forced kill is issued only to the child the stop was issued to: a
\* kill timer armed for an earlier child never kills a child started later.
\* A child that was killed had been sent the stop signal.
C15_KillOnlyStoppedChild ==
  \A i \in Attempts : procs[i].killed => procs[i].signalled

\* the names of the events sent before position i, in order
EventNamesBefore(i) ==
  LET ev == SelectSeq(SubSeq(log, 1, i - 1), LAMBDA e : e.kind = "event")
  IN [k \in 1..Len(ev) |-> ev[k].name]

\* position i holds a command received during a backoff retry sequence: the
\* last events before it are Backoff and the Starting of the retry
InRetrySequence(i) ==
  LET names == EventNamesBefore(i)
  IN /\ Len(names) >= 2
     /\ names[Len(names) - 1] = Backoff
     /\ names[Len(names)] = Starting

\* C16: a shutdown received during a backoff retry sequence abandons the
\* retries: Run returns at once in state Exited with the shutdown answered
\* with success, and no further start attempt (no Starting event) follows.
C16_ShutdownAbandonsRetries ==
  \A i \in Pos :
    (AcceptedShutdown(i) /\ InRetrySequence(i))
    => /\ loop = "returned"
       /\ state = Exited
       /\ \E r \in ResponsesTo(log[i].id) : log[r].err = NoError
       /\ \A j \in Pos : j > i /\ IsEvent(j) => log[j].name # Starting

\* C17: a restart received in Stopped or Exited with no command in flight
\* begins a start attempt: the next thing Run sends is the event Starting, not
\* an invalid-transition response.
C17_RestartAtRestStarts ==
  \A i \in Pos :
    (/\ IsCommand(i) /\ log[i].name = Restart
     /\ log[i].st \in {Stopped, Exited}
     /\ InFlightAt(i) = {})
    => i + 1 \in Pos /\ log[i + 1] = EventEntry(Starting, NoError)

\* C18: every change of the service state comes with one event carrying the
\* new state, in order: whenever the loop waits in its select, the state is the
\* state of the last event sent, or the initial state if none was sent.
\* No event repeats the state of the event before it (of the initial state, for
\* the first event): one event for each change.
C18_StateIsLastEvent ==
  LET names == EventNamesBefore(Len(log) + 1)
  IN /\ loop = "select" =>
          state = IF names = <<>> THEN Stopped ELSE names[Len(names)]
     /\ \A k \in 1..Len(names) :
          names[k] # IF k = 1 THEN Stopped ELSE names[k - 1]

\* C18 witness: the loop waits in its select after a stop sequence: the last
\* events are Stopping and Stopped, and the state is Stopped.
C18_Witness ==
  loop = "select" /\ state = Stopped /\ LastEvents(2) = <<Stopping, Stopped>>

\* the position of the command that the response at position r answers
CommandOf(r) == CHOOSE c \in Pos : IsCommand(c) /\ log[c].id = log[r].id

\* C19: a response is not sent before the events its command causes: the
\* success response to start or restart comes right after a Running event sent
\* after the command, the success response to stop right after such a Stopped
\* event, and no event follows the success response to shutdown.
C19_ResponseAfterEvents ==
  \A r \in Pos :
    (IsResponse(r) /\ log[r].err = NoError)
    => CASE log[r].name \in {Start, Restart} ->
              r - 1 > CommandOf(r) /\ log[r - 1] = EventEntry(Running, NoError)
         [] log[r].name = Stop ->
              r - 1 > CommandOf(r) /\ log[r - 1] = EventEntry(Stopped, NoError)
         [] log[r].name = Shutdown ->
              \A j \in Pos : j > r => ~IsEvent(j)

\* C19 witness: a stop, a restart and a shutdown were each answered with
\* success.
C19_Witness ==
  \A name \in {Stop, Restart, Shutdown} :
    \E r \in Pos : IsResponse(r) /\ log[r].name = name /\ log[r].err = NoError

\* C20: between any two Running events there is at least one Stopping, Exited
\* or Backoff event.
C20_RunningSeparated ==
  LET names == EventNamesBefore(Len(log) + 1)
  IN \A a, b \in 1..Len(names) :
       (a < b /\ names[a] = Running /\ names[b] = Running)
       => \E k \in (a + 1)..(b - 1) : names[k] \in {Stopping, Exited, Backoff}

\* C20 witness: Running was reached twice.
C20_Witness ==
  LET names == EventNamesBefore(Len(log) + 1)
  IN \E a, b \in 1..Len(names) : a < b /\ names[a] = Running /\ names[b] = Running

\* C21: the retry counter is at least 0 and at most the configured number of
\* start retries.
C21_RetriesInRange == retries >= 0 /\ retries <= maxRetries

\* C21 witness: the counter has reached the configured maximum, above zero.
C21_Witness == maxRetries > 0 /\ retries = maxRetries

\* C22: for each start attempt the helper posts Running and later Exited, or
\* Backoff alone, or Exited alone when the launch failed, and then terminates:
\* never Running followed by Backoff, never a second final notification.
C22_HelperSequences ==
  \A i \in Attempts :
    /\ procs[i].posted \in {<<>>, <<Running>>, <<Running, Exited>>, <<Backoff>>, <<Exited>>}
    /\ procs[i].posted = <<Exited>> => procs[i].pid = 0
    /\ procs[i].h = "done" => procs[i].posted \notin {<<>>, <<Running>>}

\* C23: whenever the service is in Stopping, the kill timer's notification
\* makes the loop kill the child if it has not exited, and the state
\* eventually becomes Stopped.
C23_StoppingResolves == (state = Stopping) ~> (state = Stopped)

\* C23 witness: a child that was sent the stop signal had to be killed, and the
\* stop sequence ended in Stopped.
C23_Witness ==
  /\ state = Stopped
  /\ LastEvents(2) = <<Stopping, Stopped>>
  /\ \E i \in Attempts : procs[i].signalled /\ procs[i].killed /\ ~procs[i].alive

\* The helper of attempt i could not launch its child and is sending Exited.
LaunchFailed(i) ==
  procs[i].h = "send" /\ procs[i].pid = 0 /\ procs[i].msg.state = Exited

\* C24: when the loop handles the Exited notification of a failed launch, the
\* notification carries the launch error, the handler emits exactly one Exited
\* event and that event carries the launch error, and a start or restart
\* command in flight is answered with the launch error.
C24_LaunchFailureSurfaces ==
  [][\A i \in Attempts :
       (LaunchFailed(i) /\ procs'[i].h = "done") =>
         LET exits == {k \in DOMAIN Appended :
                         Appended[k].kind = "event" /\ Appended[k].name = Exited}
         IN /\ procs[i].msg.err = LaunchError
            /\ Cardinality(exits) = 1
            /\ \A k \in exits : Appended[k].err = LaunchError
            /\ command.name \in {Start, Restart} =>
                 \E k \in DOMAIN Appended :
                   /\ Appended[k].kind = "response"
                   /\ Appended[k].id = command.id
                   /\ Appended[k].err = LaunchError]_vars

\* A step of a lifecycle helper, of its start-window goroutine or of a
\* stop-escalation timer.
HelperStep ==
  \/ \E i \in Attempts : \E ok \in BOOLEAN : \E pid \in 0..Len(procs) : Launch(i, ok, pid)
  \/ \E i \in Attempts : \E late \in BOOLEAN : WaitReturns(i, late)
  \/ \E i \in Attempts : StartWindow(i)
  \/ \E i \in Attempts : CheckOver(i)
  \/ \E pid \in 0..MaxSpawns + 1 : TimerFire(pid)

\* C25: no step of a lifecycle helper or of a kill timer changes the service's
\* state or the child-process handle s.command; only steps of the loop do.
C25_OnlyLoopWrites ==
  [][HelperStep => state' = state /\ scmd' = scmd]_vars

\* The attempts whose helper goroutine has not terminated, and those whose
\* child process is alive.
ActiveHelpers == {i \in Attempts : procs[i].h # "done" \/ procs[i].t \in {"sleep", "send"}}
LiveChildren == {i \in Attempts : procs[i].alive}

\* C26: at most one lifecycle helper is active and at most one child is alive,
\* and every attempt before the last one has had its final notification
\* received by the loop.
C26_OneHelper ==
  /\ Cardinality(ActiveHelpers) <= 1
  /\ Cardinality(LiveChildren) <= 1
  /\ \A i \in Attempts : i < Len(procs) =>
       /\ procs[i].h = "done"
       /\ procs[i].msg = NoMsg
       /\ procs[i].posted # <<>>
       /\ procs[i].posted[Len(procs[i].posted)] \in {Exited, Backoff}

\* C26 witness: a second attempt is under way, its child alive, after the
\* first attempt's child had run and exited.
C26_Witness ==
  /\ Len(procs) = 2
  /\ procs[1].pid # 0
  /\ procs[1].h = "done"
  /\ procs[2].alive

\* C27: once Run has returned the state is Stopped or Exited, the last helper
\* spawned has had its final notification received and has terminated, no
\* goroutine is left to send on states, and no child is alive.
C27_ReturnAtRest ==
  loop = "returned" =>
    /\ state \in {Stopped, Exited}
    /\ \A i \in Attempts :
         /\ procs[i].h = "done"
         /\ procs[i].t \in {"none", "done"}
         /\ procs[i].msg = NoMsg
         /\ ~procs[i].alive
    /\ procs # <<>> =>
         LET p == procs[Len(procs)].posted
         IN p # <<>> /\ p[Len(p)] \in {Exited, Backoff}

\* C27 witness: Run has returned after a child had run and was stopped for a
\* shutdown.
C27_Witness ==
  /\ loop = "returned"
  /\ state = Stopped
  /\ \E i \in Attempts : procs[i].pid # 0 /\ procs[i].signalled

\* C28: a handler that receives an Exited notification outside Stopping (where
\* the exit completes a stop, and a restart command goes on to start) spawns a
\* new start attempt only if the state was Running when the notification
\* arrived; in particular the Exited of a failed launch, received in Starting,
\* spawns none.
C28_RestartOnlyFromRunning ==
  [][\A i \in Attempts :
       (/\ procs[i].h = "send"
        /\ procs[i].msg.state = Exited
        /\ procs'[i].h = "done"
        /\ state # Stopping
        /\ Len(procs') > Len(procs)) => state = Running]_vars


====
